---- MODULE Spec2Model ----
(***************************************************************************)
(* SuperRareService (src/src/platform/SuperRareService.ts): the platform   *)
(* service of the SuperRare marketplace.  Strings are sequences of         *)
(* one-character strings, so that the URL regular expression, toLowerCase  *)
(* and BigInt are computed and not assumed.  An optional value             *)
(* (T | undefined) is a sequence of length at most one: <<>> is undefined, *)
(* <<v>> is the value v.  A value read from the chain is tagged with its   *)
(* ABI type, <<"address", chars>> or <<"uint256", n>>.                     *)
(***************************************************************************)
EXTENDS Integers, Sequences, FiniteSets, TLC

-----------------------------------------------------------------------------
(* Bounds of the model *)

MaxTokenId == 2
MaxUnit == 2
MaxListings == 1

-----------------------------------------------------------------------------
(* Program constants *)

SUPER_RARE_ADDRESS ==
  <<"0", "x", "b", "9", "3", "2", "a", "7", "0", "a", "5", "7", "6", "7",
    "3", "d", "8", "9", "f", "4", "a", "c", "f", "f", "b", "e", "8", "3",
    "0", "e", "8", "e", "d", "7", "f", "7", "5", "f", "b", "9", "e", "0">>

SUPER_RARE_MINTER_ADDRESS ==
  <<"0", "x", "6", "D", "7", "c", "4", "4", "7", "7", "3", "C", "5", "2",
    "D", "3", "9", "6", "F", "4", "3", "c", "2", "D", "5", "1", "1", "B",
    "8", "1", "a", "a", "1", "6", "8", "E", "9", "a", "7", "a", "4", "2">>

\* ZERO_ADDRESS of ../config/constants: the 20-byte zero address.
ZERO_ADDRESS == <<"0", "x">> \o [i \in 1..40 |-> "0"]

\* The literal prefix of the regular expression, https:\/\/superrare\.com\/
SuperRareUrl ==
  <<"h", "t", "t", "p", "s", ":", "/", "/", "s", "u", "p", "e", "r", "r",
    "a", "r", "e", ".", "c", "o", "m", "/">>

\* The character class [a-fA-F0-9]
HexDigits ==
  {"0", "1", "2", "3", "4", "5", "6", "7", "8", "9", "a", "b", "c", "d",
   "e", "f", "A", "B", "C", "D", "E", "F"}

\* The repetition count {40} of the character class
AddrHexLen == 40

\* The private field mintSignature
MintSignature ==
  "function buy(address _originContract, uint256 _tokenId, address _currencyAddress, uint256 _amount) external payable"

-----------------------------------------------------------------------------
(* String functions of the language, computed character by character *)

Undefined == <<>>

ToLowerChar(c) ==
  CASE c = "A" -> "a" [] c = "B" -> "b" [] c = "C" -> "c"
    [] c = "D" -> "d" [] c = "E" -> "e" [] c = "F" -> "f"
    [] OTHER -> c

ToUpperChar(c) ==
  CASE c = "a" -> "A" [] c = "b" -> "B" [] c = "c" -> "C"
    [] c = "d" -> "D" [] c = "e" -> "E" [] c = "f" -> "F"
    [] OTHER -> c

\* String.prototype.toLowerCase
ToLowerCase(s) == [i \in 1..Len(s) |-> ToLowerChar(s[i])]

DigitValue(c) ==
  CASE c = "0" -> 0 [] c = "1" -> 1 [] c = "2" -> 2 [] c = "3" -> 3
    [] c = "4" -> 4 [] c = "5" -> 5 [] c = "6" -> 6 [] c = "7" -> 7
    [] c = "8" -> 8 [] c = "9" -> 9

RECURSIVE ParseDecimal(_)
ParseDecimal(s) ==
  IF s = <<>> THEN 0
  ELSE 10 * ParseDecimal(SubSeq(s, 1, Len(s) - 1)) + DigitValue(s[Len(s)])

\* BigInt(v): a decimal string is parsed, a bigint (a uint256 read from the
\* chain, tagged) is its own value.
BigInt(v) ==
  IF Len(v) = 2 /\ v[1] = "uint256" THEN v[2] ELSE ParseDecimal(v)

\* A missing source URL (the parameter omitted) and the empty string are
\* the two falsy values `if (sourceUrl)` tells from a URL.
UndefinedUrl == <<"undefined">>

Truthy(sourceUrl) == sourceUrl # UndefinedUrl /\ sourceUrl # <<>>

\* Whether /https:\/\/superrare\.com\/(0x[a-fA-F0-9]{40})/ matches at i
MatchesAt(s, i) ==
  /\ i + Len(SuperRareUrl) + 2 + AddrHexLen - 1 <= Len(s)
  /\ SubSeq(s, i, i + Len(SuperRareUrl) - 1) = SuperRareUrl
  /\ s[i + Len(SuperRareUrl)] = "0"
  /\ s[i + Len(SuperRareUrl) + 1] = "x"
  /\ \A k \in 0..(AddrHexLen - 1) :
       s[i + Len(SuperRareUrl) + 2 + k] \in HexDigits

\* sourceUrl.match(regex): <<>> for null, else <<capture group 1>> of the
\* leftmost match.
ContractMatch(s) ==
  LET hits == {i \in 1..Len(s) : MatchesAt(s, i)} IN
  IF hits = {} THEN <<>>
  ELSE LET i == CHOOSE h \in hits : \A g \in hits : h <= g
       IN <<SubSeq(s, i + Len(SuperRareUrl),
                   i + Len(SuperRareUrl) + 2 + AddrHexLen - 1)>>

-----------------------------------------------------------------------------
(* Inputs *)

TokenIds == 1..MaxTokenId

DigitChars == <<"0", "1", "2", "3", "4", "5", "6", "7", "8", "9">>

\* NFTExtraction.nftId is a string: the decimal form of a token id, with or
\* without a leading zero.
NftIdStrings ==
  {<<DigitChars[i + 1]>> : i \in TokenIds}
    \cup {<<"0", DigitChars[i + 1]>> : i \in TokenIds}

\* A third-party collection contract, in mixed case as URLs carry it
OtherContract ==
  <<"0", "x">> \o [i \in 1..AddrHexLen |-> <<"a", "B", "3", "F">>[(i % 4) + 1]]

SuperRareUpper == [i \in 1..Len(SUPER_RARE_ADDRESS) |->
                     IF i <= 2 THEN SUPER_RARE_ADDRESS[i]
                     ELSE ToUpperChar(SUPER_RARE_ADDRESS[i])]

ContractAddresses == {SUPER_RARE_ADDRESS, OtherContract}

SellerAddress == <<"0", "x">> \o [i \in 1..AddrHexLen |-> "5"]
CreatorAddress == <<"0", "x">> \o [i \in 1..AddrHexLen |-> "c"]

Users == {SellerAddress, CreatorAddress}

\* 39 hexadecimal digits and a slash: one short of an address
ShortAddress == SubSeq(OtherContract, 1, AddrHexLen + 1) \o <<"/">>

SourceUrls ==
  { UndefinedUrl,
    <<>>,
    SuperRareUrl \o <<"a", "r", "t", "w", "o", "r", "k", "-", "v", "2", "/",
                     "x", "-", "1">>,
    SuperRareUrl \o OtherContract \o <<"/", "1">>,
    SuperRareUrl \o SuperRareUpper,
    SuperRareUrl \o ShortAddress \o <<"1">>,
    <<"h", "t", "t", "p", ":", "/", "/", "x", "?", "u", "=">>
       \o SuperRareUrl \o ShortAddress \o SuperRareUrl \o OtherContract
       \o <<"f", "f">> \o SuperRareUrl \o SUPER_RARE_ADDRESS }

Units == 1..MaxUnit

\* The optional parameter unit of getPrice
UnitArgs == {Undefined} \cup {<<u>> : u \in Units}

\* sourceUrl.match(...) of every source URL of the model, computed once
MatchOfUrl == [s \in SourceUrls |-> ContractMatch(s)]

-----------------------------------------------------------------------------
(* The marketplace contract's tokenSalePrices, as the client reads it *)

Address(a) == <<"address", a>>
Uint256(n) == <<"uint256", n>>

\* What the marketplace holds for a token that was never listed
ZeroSale == <<Address(ZERO_ADDRESS), Address(ZERO_ADDRESS), Uint256(0)>>

Amounts == {50, 100}

\* A result the client decodes to nothing
UndefinedResult == <<"undefined">>

\* What a read of a listed key can give: (seller, currencyAddress, amount),
\* nothing, or a result of another length.
ListedResults ==
  {<<Address(SellerAddress), Address(ZERO_ADDRESS), Uint256(a)>> : a \in Amounts}
    \cup {UndefinedResult, <<Address(SellerAddress), Address(ZERO_ADDRESS)>>}

\* The chain knows an address by its 20 bytes, whatever the case of its
\* hexadecimal form.
ChainKey(contractAddress, nftId, currency) ==
  <<ToLowerCase(contractAddress), nftId, ToLowerCase(currency)>>

ChainKeys ==
  {ChainKey(c, t, ZERO_ADDRESS) : c \in ContractAddresses, t \in TokenIds}

\* service: the fields of the SuperRareService object
\* listings: the marketplace's sale prices, listed key -> read result
\* last: the call the caller awaits the result of, with its result
\* calls: in SpecAsync, the call each concurrent resolution is in
VARIABLES service, listings, last, calls

vars == <<service, listings, last, calls>>

\* superRareServiceContract.read.tokenSalePrices([contractAddress, nftId, ZERO_ADDRESS])
ReadTokenSalePrices(chain, contractAddress, nftId, currency) ==
  LET key == ChainKey(contractAddress, nftId, currency) IN
  IF key \in DOMAIN chain THEN chain[key] ELSE ZeroSale

-----------------------------------------------------------------------------
(* The private helpers and isSaleValid *)

getFees == 3

\* getSalePrices after its await: the record built from what the read gave
getSalePrices_result(salePrice) ==
  IF salePrice = UndefinedResult \/ Len(salePrice) # 3
  THEN Undefined
  ELSE <<[price |-> BigInt(salePrice[3]),
          token |-> salePrice[3],
          seller |-> salePrice[1]]>>

getSalePrices(chain, contractAddress, nftId) ==
  getSalePrices_result(
    ReadTokenSalePrices(chain, contractAddress, nftId, ZERO_ADDRESS))

\* isSaleValid without its test of the price
isSaleValid_AnyPrice(salePrice) ==
  IF salePrice = Undefined THEN FALSE ELSE TRUE

isSaleValid(salePrice) ==
  IF salePrice = Undefined THEN FALSE
  ELSE IF salePrice[1].price = 0 THEN FALSE
  ELSE TRUE

-----------------------------------------------------------------------------
(* The public operations.  Each gives the values of the locals the        *)
(* operation computed together with what it returned.                     *)

getMinterAddress(contract, tokenId) ==
  [result |-> <<SUPER_RARE_MINTER_ADDRESS>>]

\* getMintSignature without the test of the sale
getMintSignature_result_Unchecked(svc, salePrice) == <<svc.mintSignature>>

\* getMintSignature after its await
getMintSignature_result(svc, salePrice) ==
  IF ~isSaleValid(salePrice) THEN Undefined ELSE <<svc.mintSignature>>

getMintSignature(svc, chain, nftDetails) ==
  LET salePrice == getSalePrices(chain, nftDetails.contractAddress,
                                 BigInt(nftDetails.nftId)) IN
  [salePrice |-> salePrice,
   result |-> getMintSignature_result(svc, salePrice)]

\* The selling contract of getUIData
getUIData_sellAddress(sourceUrl) ==
  IF Truthy(sourceUrl) /\ MatchOfUrl[sourceUrl] # <<>>
  THEN MatchOfUrl[sourceUrl][1]
  ELSE SUPER_RARE_ADDRESS

\* The selling contract of getPrice
getPrice_sellAddress(sourceUrl) ==
  IF Truthy(sourceUrl) /\ MatchOfUrl[sourceUrl] # <<>>
  THEN MatchOfUrl[sourceUrl][1]
  ELSE SUPER_RARE_ADDRESS

\* getArgs without the override by the source URL
getArgs_sellAddress_Default(sourceUrl) == SUPER_RARE_ADDRESS

\* The selling contract of getArgs
getArgs_sellAddress(sourceUrl) ==
  IF Truthy(sourceUrl) /\ MatchOfUrl[sourceUrl] # <<>>
  THEN MatchOfUrl[sourceUrl][1]
  ELSE SUPER_RARE_ADDRESS

\* The fee taken on the total of the units, not on the price of one
getPrice_total_FeeOnTotal(salePrice, unit) ==
  (salePrice.price * unit * getFees) \div 100 + salePrice.price * unit

\* The returned price of getPrice, for a sale that is valid
getPrice_total(salePrice, unit) ==
  ((salePrice.price * getFees) \div 100 + salePrice.price) * unit

\* The default of the parameter unit
getPrice_unit(unitArg) == IF unitArg = Undefined THEN 1 ELSE unitArg[1]

\* getPrice after its await
getPrice_result(salePrice, unit) ==
  IF ~isSaleValid(salePrice) THEN Undefined
  ELSE <<getPrice_total(salePrice[1], unit)>>

getPrice(chain, contractAddress, nftId, signature, userAddress, unitArg, sourceUrl) ==
  LET unit == getPrice_unit(unitArg)
      sellAddress == getPrice_sellAddress(sourceUrl)
      salePrice == getSalePrices(chain, sellAddress, nftId)
  IN [sellAddress |-> sellAddress,
      salePrice |-> salePrice,
      result |-> getPrice_result(salePrice, unit)]

\* getArgs with the quantity where the token id belongs
getArgs_QuantityForToken(contractAddress, tokenId, senderAddress, signature, price, quantity, profileOwnerAddress, sourceUrl) ==
  LET sellAddress == getArgs_sellAddress(sourceUrl) IN
  [sellAddress |-> sellAddress,
   result |-> <<sellAddress, quantity, ZERO_ADDRESS, price>>]

getArgs(contractAddress, tokenId, senderAddress, signature, price, quantity, profileOwnerAddress, sourceUrl) ==
  LET sellAddress == getArgs_sellAddress(sourceUrl) IN
  [sellAddress |-> sellAddress,
   result |-> <<sellAddress, tokenId, ZERO_ADDRESS, price>>]

-----------------------------------------------------------------------------
(* getUIData and what the chain and the metadata host answer it *)

Ok(v) == [status |-> "ok", value |-> v]
Thrown(message) == [status |-> "error", message |-> message]

TokenUri == <<"i", "p", "f", "s", ":", "/", "/", "t">>

\* A field of the token's JSON: missing, the empty string, or a text
JsonFields == {Undefined, <<"">>, <<"Art">>}

\* A test for the missing field alone: the empty string passes
Falsy_MissingOnly(field) == field = Undefined

Falsy(field) == field = Undefined \/ field = <<"">>

\* The answers one call of getUIData can get.  creator: the tokenCreator or
\* owner read, <<>> when the read fails.  tokenURI: the tokenURI read, <<>>
\* when it fails.  fetch: the fetch rejects, answers not ok or answers ok;
\* json: the body parses or not.  An answer the call cannot reach holds its
\* first value.
Answers ==
  { a \in [creator : {Undefined, <<CreatorAddress>>},
           tokenURI : {Undefined, <<TokenUri>>},
           fetch : {"ok", "not ok", "rejects"},
           json : {"parses", "fails"},
           name : JsonFields,
           image : JsonFields] :
      /\ a.tokenURI = Undefined => a.fetch = "ok"
      /\ a.fetch # "ok" \/ a.tokenURI = Undefined => a.json = "parses"
      /\ a.json # "parses" \/ a.fetch # "ok" \/ a.tokenURI = Undefined
           => a.name = Undefined
      /\ Falsy(a.name) => a.image = Undefined }

\* The object literal getUIData returns
UIDataOf(svc, tokenJson, owner, dstChainId) ==
  LET base == [platformName |-> svc.platformName,
               platformLogoUrl |-> svc.platformLogoUrl,
               nftName |-> tokenJson.name[1],
               nftUri |-> tokenJson.image[1],
               tokenStandard |-> "erc721",
               dstChainId |-> dstChainId]
  IN IF owner # Undefined
     THEN [f \in DOMAIN base \cup {"nftCreatorAddress"} |->
             IF f = "nftCreatorAddress" THEN owner[1] ELSE base[f]]
     ELSE base

\* Whether the creator lookup is the unguarded tokenCreator read
getUIData_readsTokenCreator(sellAddress) ==
  ToLowerCase(sellAddress) = ToLowerCase(SUPER_RARE_ADDRESS)

getUIData(svc, answers, signature, contract, tokenId, dstChainId, sourceUrl) ==
  LET sellAddress == getUIData_sellAddress(sourceUrl)
      creatorThrows == /\ getUIData_readsTokenCreator(sellAddress)
                       /\ answers.creator = Undefined
      owner == answers.creator
      result ==
        IF creatorThrows THEN Thrown("tokenCreator read failed")
        ELSE IF answers.tokenURI = Undefined THEN Thrown("tokenURI read failed")
        ELSE IF answers.fetch = "rejects" THEN Thrown("fetch failed")
        ELSE IF answers.fetch # "ok" THEN Thrown("Token data not found")
        ELSE IF answers.json # "parses" THEN Thrown("json failed")
        ELSE IF Falsy(answers.name) THEN Thrown("Collection name not found")
        ELSE IF Falsy(answers.image) THEN Thrown("Preview asset url not found")
        ELSE Ok(UIDataOf(svc, answers, owner, dstChainId))
  IN [sellAddress |-> sellAddress, result |-> result]

-----------------------------------------------------------------------------
(* The state machine: the marketplace changes, and the service is called *)

ServiceConfigs ==
  {[platformName |-> "SuperRare", platformLogoUrl |-> "https://superrare.com/logo.png"]}

DstChainIds == {137}

\* The price argument of getArgs: whatever the caller passes on from getPrice
PriceArgs ==
  {Undefined, <<0>>} \cup {<<getPrice_total([price |-> a], 1)>> : a \in Amounts}

NFTExtractions == [contractAddress : ContractAddresses, nftId : NftIdStrings]

\* The resolutions that run concurrently in SpecAsync
Resolutions == {"r1", "r2"}

\* No call is awaited: the caller took the result of the last one
NoCall == [op |-> "none"]

Init ==
  /\ \E config \in ServiceConfigs :
       service = [platformName |-> config.platformName,
                  platformLogoUrl |-> config.platformLogoUrl,
                  mintSignature |-> MintSignature]
  /\ listings = [k \in {} |-> ZeroSale]
  /\ last = NoCall
  /\ calls = [r \in Resolutions |-> NoCall]

\* A token is put on sale, or its sale changes
SetSalePriceOf(keys) ==
  /\ last = NoCall
  /\ \E key \in keys, r \in ListedResults :
      /\ Cardinality(DOMAIN listings \cup {key}) <= MaxListings
      /\ listings' = [k \in DOMAIN listings \cup {key} |->
                        IF k = key THEN r ELSE listings[k]]
      /\ UNCHANGED <<service, last, calls>>

SetSalePrice == SetSalePriceOf(ChainKeys)

\* A sale ends: the token is sold or the listing is cancelled
RemoveSalePrice ==
  /\ last = NoCall
  /\ \E key \in DOMAIN listings :
      /\ listings' = [k \in DOMAIN listings \ {key} |-> listings[k]]
      /\ UNCHANGED <<service, last, calls>>

GetMinterAddress ==
  /\ last = NoCall
  /\ \E contract \in ContractAddresses, tokenId \in TokenIds :
      /\ last' = [op |-> "getMinterAddress", contract |-> contract,
                  tokenId |-> tokenId]
                 @@ getMinterAddress(contract, tokenId)
      /\ UNCHANGED <<service, listings, calls>>

GetMintSignature ==
  /\ last = NoCall
  /\ \E nftDetails \in NFTExtractions :
      /\ last' = [op |-> "getMintSignature", nftDetails |-> nftDetails]
                 @@ getMintSignature(service, listings, nftDetails)
      /\ UNCHANGED <<service, listings, calls>>

GetPrice ==
  /\ last = NoCall
  /\ \E contractAddress \in ContractAddresses, nftId \in TokenIds,
       userAddress \in Users, unit \in UnitArgs, sourceUrl \in SourceUrls :
      /\ last' = [op |-> "getPrice", contractAddress |-> contractAddress,
                  nftId |-> nftId, userAddress |-> userAddress, unit |-> unit,
                  sourceUrl |-> sourceUrl]
                 @@ getPrice(listings, contractAddress, nftId, MintSignature,
                             userAddress, unit, sourceUrl)
      /\ UNCHANGED <<service, listings, calls>>

GetArgs ==
  /\ last = NoCall
  /\ \E contractAddress \in ContractAddresses, tokenId \in TokenIds,
       price \in PriceArgs, sourceUrl \in SourceUrls :
      /\ last' = [op |-> "getArgs", contractAddress |-> contractAddress,
                  tokenId |-> tokenId, price |-> price, sourceUrl |-> sourceUrl]
                 @@ getArgs(contractAddress, tokenId, SellerAddress, MintSignature,
                            price, 1, CreatorAddress, sourceUrl)
      /\ UNCHANGED <<service, listings, calls>>

GetUIData ==
  /\ last = NoCall
  /\ \E contract \in ContractAddresses, tokenId \in TokenIds,
       dstChainId \in DstChainIds, sourceUrl \in SourceUrls, answers \in Answers :
      /\ last' = [op |-> "getUIData", contract |-> contract, tokenId |-> tokenId,
                  dstChainId |-> dstChainId, sourceUrl |-> sourceUrl,
                  answers |-> answers]
                 @@ getUIData(service, answers, MintSignature, contract, tokenId,
                              dstChainId, sourceUrl)
      /\ UNCHANGED <<service, listings, calls>>

\* isSaleValid is public: it is called with any record or none
IsSaleValid ==
  /\ last = NoCall
  /\ \E salePrice \in {Undefined}
          \cup {<<[price |-> p, token |-> Uint256(p), seller |-> Address(SellerAddress)]>> :
                  p \in Amounts \cup {0}} :
      /\ last' = [op |-> "isSaleValid", salePrice |-> salePrice,
                  result |-> isSaleValid(salePrice)]
      /\ UNCHANGED <<service, listings, calls>>

\* The caller takes the result: the promise of the call is settled
TakeResult ==
  /\ last # NoCall
  /\ last' = NoCall
  /\ UNCHANGED <<service, listings, calls>>

Next ==
  \/ SetSalePrice
  \/ RemoveSalePrice
  \/ GetMinterAddress
  \/ GetMintSignature
  \/ GetPrice
  \/ GetArgs
  \/ GetUIData
  \/ IsSaleValid
  \/ TakeResult

Spec == Init /\ [][Next]_vars

-----------------------------------------------------------------------------
(* SpecAsync: concurrent resolutions.  getPrice and getMintSignature await *)
(* the read of tokenSalePrices: the call is sent, the chain answers it    *)
(* from the listings it has at that moment, and the call resumes with     *)
(* the answer.  The marketplace changes at any moment in between.         *)

AsyncTokenIds == {1}
AsyncUrls == {UndefinedUrl, SuperRareUrl \o OtherContract \o <<"/", "1">>}
AsyncUnits == {<<2>>}
AsyncKeys ==
  {ChainKey(c, t, ZERO_ADDRESS) : c \in ContractAddresses, t \in AsyncTokenIds}
AsyncAnswers ==
  {a \in Answers : a.creator = Undefined /\ a.name = <<"Art">> /\ a.image = <<"Art">>}

\* The arguments of the read a suspended call waits for
ReadOf(chain, call) ==
  IF call.op = "getPrice"
  THEN ReadTokenSalePrices(chain, call.sellAddress, call.nftId, ZERO_ADDRESS)
  ELSE ReadTokenSalePrices(chain, call.nftDetails.contractAddress,
                           BigInt(call.nftDetails.nftId), ZERO_ADDRESS)

\* getPrice up to its await
StartGetPrice(r) ==
  /\ calls[r] = NoCall
  /\ \E nftId \in AsyncTokenIds,
       unit \in AsyncUnits, sourceUrl \in AsyncUrls :
      /\ calls' = [calls EXCEPT ![r] =
           [op |-> "getPrice", phase |-> "reading", nftId |-> nftId,
            unit |-> unit, sourceUrl |-> sourceUrl,
            sellAddress |-> getPrice_sellAddress(sourceUrl)]]
      /\ UNCHANGED <<service, listings, last>>

\* getMintSignature up to its await
StartGetMintSignature(r) ==
  /\ calls[r] = NoCall
  /\ \E contractAddress \in ContractAddresses, nftId \in AsyncTokenIds :
      /\ calls' = [calls EXCEPT ![r] =
           [op |-> "getMintSignature", phase |-> "reading",
            nftDetails |-> [contractAddress |-> contractAddress,
                            nftId |-> <<DigitChars[nftId + 1]>>]]]
      /\ UNCHANGED <<service, listings, last>>

\* The chain answers the read of a suspended call
AnswerRead(r) ==
  /\ calls[r].op \in {"getPrice", "getMintSignature"}
  /\ calls[r].phase = "reading"
  /\ calls' = [calls EXCEPT ![r] =
       [phase |-> "answered", read |-> ReadOf(listings, calls[r])] @@ calls[r]]
  /\ UNCHANGED <<service, listings, last>>

\* The call resumes after its await and returns
Resume(r) ==
  /\ calls[r].op \in {"getPrice", "getMintSignature"}
  /\ calls[r].phase = "answered"
  /\ LET salePrice == getSalePrices_result(calls[r].read) IN
     calls' = [calls EXCEPT ![r] =
       [phase |-> "returned", salePrice |-> salePrice,
        result |-> IF calls[r].op = "getPrice"
                   THEN getPrice_result(salePrice, getPrice_unit(calls[r].unit))
                   ELSE getMintSignature_result(service, salePrice)]
       @@ calls[r]]
  /\ UNCHANGED <<service, listings, last>>

\* The operations that await nothing of the marketplace's sale prices
CallGetArgs(r) ==
  /\ calls[r] = NoCall
  /\ \E price \in {<<0>>, <<103>>}, sourceUrl \in {UndefinedUrl} :
      /\ calls' = [calls EXCEPT ![r] =
           [op |-> "getArgs", phase |-> "returned"]
           @@ getArgs(SUPER_RARE_ADDRESS, 1, SellerAddress, MintSignature, price,
                      1, CreatorAddress, sourceUrl)]
      /\ UNCHANGED <<service, listings, last>>

CallGetMinterAddress(r) ==
  /\ calls[r] = NoCall
  /\ calls' = [calls EXCEPT ![r] =
       [op |-> "getMinterAddress", phase |-> "returned"]
       @@ getMinterAddress(SUPER_RARE_ADDRESS, 1)]
  /\ UNCHANGED <<service, listings, last>>

CallIsSaleValid(r) ==
  /\ calls[r] = NoCall
  /\ \E salePrice \in {Undefined,
                      <<[price |-> 0, token |-> Uint256(0),
                         seller |-> Address(ZERO_ADDRESS)]>>} :
      /\ calls' = [calls EXCEPT ![r] =
           [op |-> "isSaleValid", phase |-> "returned",
            result |-> isSaleValid(salePrice)]]
      /\ UNCHANGED <<service, listings, last>>

CallGetUIData(r) ==
  /\ calls[r] = NoCall
  /\ \E sourceUrl \in AsyncUrls, answers \in AsyncAnswers :
      /\ calls' = [calls EXCEPT ![r] =
           [op |-> "getUIData", phase |-> "returned"]
           @@ getUIData(service, answers, MintSignature, SUPER_RARE_ADDRESS, 1,
                        137, sourceUrl)]
      /\ UNCHANGED <<service, listings, last>>

\* The resolution takes the result of its call
Settle(r) ==
  /\ calls[r] # NoCall
  /\ calls[r].phase = "returned"
  /\ calls' = [calls EXCEPT ![r] = NoCall]
  /\ UNCHANGED <<service, listings, last>>

AsyncSetSalePrice == SetSalePriceOf(AsyncKeys)

NextAsync ==
  \/ AsyncSetSalePrice
  \/ RemoveSalePrice
  \/ \E r \in Resolutions :
       \/ StartGetPrice(r)
       \/ StartGetMintSignature(r)
       \/ AnswerRead(r)
       \/ Resume(r)
       \/ CallGetArgs(r)
       \/ CallGetMinterAddress(r)
       \/ CallIsSaleValid(r)
       \/ CallGetUIData(r)
       \/ Settle(r)

SpecAsync == Init /\ [][NextAsync]_vars

-----------------------------------------------------------------------------
(* Properties of the calls of Spec.  In Spec a call runs against the      *)
(* listings of the state it returns in.                                   *)

\* What the marketplace gives for the sale getPrice looked up
SaleReadByGetPrice ==
  ReadTokenSalePrices(listings, last.sellAddress, last.nftId, ZERO_ADDRESS)

IsSaleTuple(salePrice) == salePrice # UndefinedResult /\ Len(salePrice) = 3

\* C1: for a sale of base price P > 0 and a unit U >= 1, getPrice returns
\* U * (P + floor(P * 3 / 100)), the fee taken on one unit with floor
\* division and then multiplied; with the unit omitted, P + floor(P * 3 / 100).
C1_PriceFormula ==
  /\ getFees = 3
  /\ (last.op = "getPrice" /\ IsSaleTuple(SaleReadByGetPrice)
        /\ SaleReadByGetPrice[3][2] > 0) =>
       LET P == SaleReadByGetPrice[3][2]
           perUnit == P + (P * 3) \div 100
       IN IF last.unit = Undefined
          THEN last.result = <<perUnit>>
          ELSE last.result = <<last.unit[1] * perUnit>>

\* Base price 100 and two units: 206
C1_Witness ==
  /\ last.op = "getPrice"
  /\ last.unit = <<2>>
  /\ IsSaleTuple(SaleReadByGetPrice)
  /\ SaleReadByGetPrice[3][2] = 100
  /\ last.result = <<206>>

\* C2: isSaleValid is true exactly for a record that exists with a price
\* above zero; for a record that is absent or has price 0, getMintSignature
\* and getPrice return undefined, whatever the unit and the buyer.
C2_InvalidSaleRefused ==
  /\ last.op = "isSaleValid" =>
       (last.result <=> (last.salePrice # Undefined /\ last.salePrice[1].price > 0))
  /\ last.op \in {"getMintSignature", "getPrice"} =>
       /\ (last.salePrice = Undefined \/ last.salePrice[1].price = 0)
            => last.result = Undefined
       /\ last.salePrice = Undefined <=> ~IsSaleTuple(
            IF last.op = "getPrice" THEN SaleReadByGetPrice
            ELSE ReadTokenSalePrices(listings, last.nftDetails.contractAddress,
                                     BigInt(last.nftDetails.nftId), ZERO_ADDRESS))

\* A record with price 0 was read and the price refused
C2_Witness ==
  /\ last.op = "getPrice"
  /\ last.salePrice # Undefined
  /\ last.salePrice[1].price = 0
  /\ last.result = Undefined

\* C3: with the chain unchanged, getMintSignature(extraction) returns a
\* signature if and only if getPrice for the extraction's contract address,
\* token id and any source URL returns a price.
C3_SameSaleForSignatureAndPrice ==
  last.op = "getMintSignature" =>
    \A sourceUrl \in SourceUrls, unit \in UnitArgs, userAddress \in Users :
      (last.result # Undefined) <=>
        (getPrice(listings, last.nftDetails.contractAddress,
                  BigInt(last.nftDetails.nftId), MintSignature, userAddress,
                  unit, sourceUrl).result # Undefined)

\* a is "0x" and 40 hexadecimal digits
IsAddress(a) ==
  /\ Len(a) = 42
  /\ a[1] = "0"
  /\ a[2] = "x"
  /\ \A k \in 3..42 : a[k] \in HexDigits

\* The addresses each source URL of the model holds right after
\* https://superrare.com/
EmbeddedIn ==
  [u \in SourceUrls |->
     {SubSeq(u, i + 22, i + 63) :
        i \in {j \in 1..Len(u) :
                 /\ j + 63 <= Len(u)
                 /\ SubSeq(u, j, j + 21) = SuperRareUrl
                 /\ IsAddress(SubSeq(u, j + 22, j + 63))}}]

\* sourceUrl holds https://superrare.com/ followed by the address a
Embeds(sourceUrl, a) == a \in EmbeddedIn[sourceUrl]

EmbedsAnAddress(sourceUrl) == EmbeddedIn[sourceUrl] # {}

\* C4: getUIData, getPrice and getArgs resolve the selling contract alike:
\* an address the source URL embeds after https://superrare.com/ when there
\* is one, SUPER_RARE_ADDRESS when the URL is absent, empty or embeds none;
\* for one source URL the three never differ.
C4_SameSellAddress ==
  last.op \in {"getUIData", "getPrice", "getArgs"} =>
    /\ IF EmbedsAnAddress(last.sourceUrl)
       THEN Embeds(last.sourceUrl, last.sellAddress)
       ELSE last.sellAddress = SUPER_RARE_ADDRESS
    /\ getUIData_sellAddress(last.sourceUrl) = last.sellAddress
    /\ getPrice_sellAddress(last.sourceUrl) = last.sellAddress
    /\ getArgs_sellAddress(last.sourceUrl) = last.sellAddress
    /\ last.op = "getArgs" => last.result[1] = last.sellAddress
    /\ last.op = "getPrice" =>
         last.salePrice = getSalePrices(listings, last.sellAddress, last.nftId)

\* getArgs was called with a URL that embeds a third-party contract
C4_Witness ==
  /\ last.op = "getArgs"
  /\ last.sourceUrl = SuperRareUrl \o OtherContract \o <<"/", "1">>
  /\ last.contractAddress = SUPER_RARE_ADDRESS
  /\ last.result[1] = OtherContract

\* C5 as claimed: the arguments of getArgs carry the contract address and
\* the token id it was called with, whatever the source URL.
C5_RoundTripAsClaimed ==
  last.op = "getArgs" =>
    /\ last.result[1] = last.contractAddress
    /\ last.result[2] = last.tokenId

\* C5 as amended: the second argument is the token id getArgs was called
\* with; the first is the selling contract the source URL resolves to, which
\* is the contract address of the call exactly when the two are the same.
C5_RoundTripAmended ==
  last.op = "getArgs" =>
    /\ last.result[2] = last.tokenId
    /\ IF EmbedsAnAddress(last.sourceUrl)
       THEN Embeds(last.sourceUrl, last.result[1])
       ELSE last.result[1] = SUPER_RARE_ADDRESS
    /\ (last.result[1] = last.contractAddress)
         <=> (last.contractAddress = last.sellAddress)

\* The round trip holds for a contract address the URL embeds, on token 2
C5_Witness ==
  /\ last.op = "getArgs"
  /\ last.tokenId = 2
  /\ last.contractAddress = OtherContract
  /\ Embeds(last.sourceUrl, OtherContract)
  /\ last.result[1] = OtherContract
  /\ last.result[2] = 2

\* C6: getArgs never returns arguments whose amount is 0 or undefined.
C6_NoZeroValuePurchase ==
  last.op = "getArgs" => last.result[4] \notin {Undefined, <<0>>}

\* C7: getUIData returns a UIData only when the fetch was ok and the
\* token's JSON has a non-empty name and a non-empty image, and the UIData
\* carries them; otherwise it fails with an error.
C7_MetadataRequired ==
  last.op = "getUIData" =>
    LET a == last.answers IN
    /\ last.result.status = "ok" =>
         /\ a.fetch = "ok"
         /\ a.name \notin {Undefined, <<"">>}
         /\ a.image \notin {Undefined, <<"">>}
         /\ last.result.value.nftName = a.name[1]
         /\ last.result.value.nftUri = a.image[1]
         /\ last.result.value.nftName # ""
         /\ last.result.value.nftUri # ""
    /\ (a.fetch # "ok" \/ a.name \in {Undefined, <<"">>}
          \/ a.image \in {Undefined, <<"">>}) => last.result.status = "error"

\* The name is there and the image is not: the call fails
C7_Witness ==
  /\ last.op = "getUIData"
  /\ last.answers.name = <<"Art">>
  /\ last.answers.image = Undefined
  /\ last.result = Thrown("Preview asset url not found")

\* C8: when the creator or owner read fails and the token URI read, the
\* fetch, the name and the image are there, getUIData succeeds and its
\* UIData has no nftCreatorAddress, whichever selling contract was resolved.
C8_CreatorLookupNeverFatal ==
  (/\ last.op = "getUIData"
   /\ last.answers.creator = Undefined
   /\ last.answers.tokenURI # Undefined
   /\ last.answers.fetch = "ok"
   /\ last.answers.json = "parses"
   /\ ~Falsy(last.answers.name)
   /\ ~Falsy(last.answers.image)) =>
      /\ last.result.status = "ok"
      /\ "nftCreatorAddress" \notin DOMAIN last.result.value

\* C10: the record getSalePrices builds has the tuple's amount as price, the
\* tuple's currency address as payment token and the tuple's seller as
\* seller, and the token is no copy of the price; a result that is missing
\* or not of length 3 gives no record.
C10_SaleRecordFields ==
  last.op = "getPrice" =>
    IF IsSaleTuple(SaleReadByGetPrice)
    THEN /\ last.salePrice # Undefined
         /\ last.salePrice[1].price = SaleReadByGetPrice[3][2]
         /\ last.salePrice[1].token = SaleReadByGetPrice[2]
         /\ last.salePrice[1].seller = SaleReadByGetPrice[1]
         /\ last.salePrice[1].token # SaleReadByGetPrice[3]
    ELSE last.salePrice = Undefined

-----------------------------------------------------------------------------
(* Properties of SpecAsync *)

\* What a call that has returned must have returned, given what it read
ReturnedFromRead(call) ==
  IF ~IsSaleTuple(call.read) \/ call.read[3][2] = 0
  THEN call.result = Undefined
  ELSE IF call.op = "getPrice"
       THEN call.result =
              <<call.unit[1] * (call.read[3][2] + (call.read[3][2] * 3) \div 100)>>
       ELSE call.result = <<MintSignature>>

C9_ResultFromOwnRead ==
  \A r \in Resolutions :
    (calls[r].op \in {"getPrice", "getMintSignature"}
       /\ calls[r].phase = "returned") => ReturnedFromRead(calls[r])

C9_Step ==
  /\ service' = service
  /\ \A r \in Resolutions :
       /\ (calls'[r] # calls[r] /\ calls'[r].op \in {"getPrice", "getMintSignature"}
             /\ calls'[r].phase = "answered") =>
            calls'[r].read =
              ReadTokenSalePrices(listings,
                IF calls[r].op = "getPrice" THEN calls[r].sellAddress
                ELSE calls[r].nftDetails.contractAddress,
                IF calls[r].op = "getPrice" THEN calls[r].nftId
                ELSE ParseDecimal(calls[r].nftDetails.nftId),
                ZERO_ADDRESS)
       /\ calls'[r] # calls[r] =>
            \A q \in Resolutions \ {r} : calls'[q] = calls[q]

\* C9: no operation changes a field of the service and nothing is cached:
\* under every interleaving of the calls of concurrent resolutions with
\* changes of the marketplace, a read is answered from the listings of the
\* moment it is answered at, a step of one resolution changes nothing of
\* another, and what getPrice or getMintSignature returns is decided by its
\* own arguments and the sale it read: undefined for a sale that is absent
\* or priced 0, and else the price computed from that same sale.
C9_Stateless == []C9_ResultFromOwnRead /\ [][C9_Step]_vars

\* getPrice returned a price from a sale that is gone by now, while the
\* other resolution is in a call of its own
C9_Witness ==
  /\ calls["r1"].op = "getPrice"
  /\ calls["r1"].phase = "returned"
  /\ calls["r1"].result = <<102>>
  /\ ReadOf(listings, calls["r1"]) = ZeroSale
  /\ calls["r2"].op = "getMintSignature"
  /\ calls["r2"].phase = "answered"
  /\ calls["r2"].read = ZeroSale

====
